---- MODULE Spec2Model ----
(***************************************************************************)
(* A model of the immutable directed-graph engine of src/src/Utils/Graph.ts *)
(* (class Graph): validated construction, the factories, the with/without  *)
(* mutations, the representation converters, hierarchy levels and the      *)
(* shortest-path engine (bellmanFord, dijkstra, johnson).                  *)
(*                                                                         *)
(* A Graph value is a record [vertices, edges] of two sequences.  An edge  *)
(* is a record [from, to, weight, distance]; an optional property of the   *)
(* JavaScript object is a sequence of length 0 (absent) or 1 (present).    *)
(***************************************************************************)
EXTENDS Integers, Sequences, FiniteSets, TLC

VARIABLES
    has,    \* TRUE when the caller holds a Graph value
    g,      \* the Graph value the caller holds (meaningful when has)
    op,     \* name of the last call
    arg,    \* argument of the last call
    err,    \* "none", or the class name of the error the last call threw
    out     \* value returned by the last query call

vars == <<has, g, op, arg, err, out>>

\* JavaScript's Infinity: larger than every finite distance of the model
Infinity == 1000000

NoError == "none"
ArgumentError == "GraphArgumentError"
ValidationError == "GraphValidationError"

(***************************************************************************)
(* Helpers on sequences and sets.                                          *)
(***************************************************************************)
Range(s) == {s[i] : i \in 1..Len(s)}

SeqsUpTo(S, n) == UNION {[1..k -> S] : k \in 0..n}

Includes(s, x) == \E i \in 1..Len(s) : s[i] = x

\* Array.prototype.indexOf, 1-based; 0 when absent
IndexOf(s, x) ==
    IF Includes(s, x) THEN CHOOSE i \in 1..Len(s) : s[i] = x /\ \A j \in 1..(i-1) : s[j] # x
    ELSE 0

NoValue == <<>>
Some(x) == <<x>>

Edge(f, t, w) == [from |-> f, to |-> t, weight |-> w, distance |-> NoValue]

EmptyGraph == [vertices |-> <<>>, edges |-> <<>>]

(***************************************************************************)
(* Construction.                                                           *)
(***************************************************************************)
\* validateGraph without its second test (!vertexSet.has(to))
ValidateGraphFromOnly(vs, es) ==
    \A i \in 1..Len(es) : es[i].from \in Range(vs)

\* validateGraph: the first edge endpoint missing from the vertex set throws
ValidateGraphOk(vs, es) ==
    \A i \in 1..Len(es) : es[i].from \in Range(vs) /\ es[i].to \in Range(vs)

\* new Graph({vertices, edges}) on two arrays: the error thrown, or NoError
ConstructErr(vs, es) == IF ValidateGraphOk(vs, es) THEN NoError ELSE ValidationError

MakeGraph(vs, es) == [vertices |-> vs, edges |-> es]

(***************************************************************************)
(* Shortest paths.  A distance map is a function from the set of vertices  *)
(* (the keys of the JavaScript record) to numbers.                         *)
(***************************************************************************)
\* (weight || 1): an absent weight and a weight of 0 both count as 1
EffWeight(e) == IF e.weight = NoValue \/ e.weight[1] = 0 THEN 1 ELSE e.weight[1]

\* distances[vertex] = vertex === start ? 0 : Infinity
InitDistances(vs, start) == [v \in Range(vs) |-> IF v = start THEN 0 ELSE Infinity]

\* the body of the relaxation forEach, for one edge
RelaxEdge(d, e) ==
    IF d[e.from] # Infinity /\ d[e.from] + EffWeight(e) < d[e.to]
    THEN [d EXCEPT ![e.to] = d[e.from] + EffWeight(e)]
    ELSE d

\* this._edges.forEach(relax): one pass over the edges, in order, in place
RECURSIVE RelaxPass(_, _, _)
RelaxPass(es, k, d) ==
    IF k > Len(es) THEN d ELSE RelaxPass(es, k + 1, RelaxEdge(d, es[k]))

\* for (i = 0; i < vertices.length - 1; i++) pass
RECURSIVE RelaxRounds(_, _, _)
RelaxRounds(es, rounds, d) ==
    IF rounds <= 0 THEN d ELSE RelaxRounds(es, rounds - 1, RelaxPass(es, 1, d))

\* the final pass: some edge still improves a distance
StillImproves(es, d) ==
    \E i \in 1..Len(es) :
        d[es[i].from] # Infinity /\ d[es[i].from] + EffWeight(es[i]) < d[es[i].to]

\* bellmanFord(start): [err, dist]
BellmanFord(gr, start) ==
    LET d == RelaxRounds(gr.edges, Len(gr.vertices) - 1,
                         InitDistances(gr.vertices, start))
    IN  IF StillImproves(gr.edges, d)
        THEN [err |-> ValidationError, dist |-> d]
        ELSE [err |-> NoError, dist |-> d]

(***************************************************************************)
(* dijkstra.  The queue holds items [vertex, weight]; MinPriorityQueue     *)
(* dequeues an item of least weight, and which one among equal weights is  *)
(* the library's business: every choice is a possible run.                 *)
(***************************************************************************)
\* the most dequeues a run of the model follows before it is cut off
MaxDequeues == 12

Diverged == "diverged"

RemoveAt(s, i) == SubSeq(s, 1, i - 1) \o SubSeq(s, i + 1, Len(s))

MinIdx(q) == {i \in 1..Len(q) : \A j \in 1..Len(q) : q[i].weight <= q[j].weight}

\* the body of the for-of over adjList[vertex], for one adjacency entry
DijkstraRelaxNoEnqueue(st, vertex, e) ==
    IF st.d[vertex] # Infinity /\ st.d[vertex] + EffWeight(e) < st.d[e.to]
    THEN [d |-> [st.d EXCEPT ![e.to] = st.d[vertex] + EffWeight(e)], q |-> st.q]
    ELSE st

DijkstraRelax(st, vertex, e) ==
    IF st.d[vertex] # Infinity /\ st.d[vertex] + EffWeight(e) < st.d[e.to]
    THEN [d |-> [st.d EXCEPT ![e.to] = st.d[vertex] + EffWeight(e)],
          q |-> Append(st.q, [vertex |-> e.to, weight |-> st.d[vertex] + EffWeight(e)])]
    ELSE st

\* for (const {target, weight} of adjList[vertex]): asAdjList keeps, per
\* vertex, the edges leaving it in the order of the edge sequence
RECURSIVE DijkstraVisit(_, _, _, _)
DijkstraVisit(es, k, vertex, st) ==
    IF k > Len(es) THEN st
    ELSE DijkstraVisit(es, k + 1, vertex,
             IF es[k].from = vertex THEN DijkstraRelax(st, vertex, es[k]) ELSE st)

\* while (!queue.isEmpty()): the set of outcomes [done, dist] over all runs
RECURSIVE DijkstraLoop(_, _, _)
DijkstraLoop(es, st, fuel) ==
    IF st.q = <<>> THEN {[done |-> TRUE, dist |-> st.d]}
    ELSE IF fuel = 0 THEN {[done |-> FALSE, dist |-> st.d]}
    ELSE UNION { DijkstraLoop(es,
                     DijkstraVisit(es, 1, st.q[i].vertex,
                                   [d |-> st.d, q |-> RemoveAt(st.q, i)]),
                     fuel - 1) : i \in MinIdx(st.q) }

\* dijkstra(start), start a vertex of the graph
Dijkstra(gr, start) ==
    DijkstraLoop(gr.edges,
                 [d |-> InitDistances(gr.vertices, start),
                  q |-> <<[vertex |-> start, weight |-> 0]>>],
                 MaxDequeues)

(***************************************************************************)
(* johnson.                                                                *)
(***************************************************************************)
MaxOf(S) == CHOOSE x \in S : \A y \in S : y <= x

\* Math.max(...vertices) + 1; Math.max() of nothing is -Infinity
JohnsonQ(gr) == IF gr.vertices = <<>> THEN -Infinity ELSE MaxOf(Range(gr.vertices)) + 1

\* vertices.push(q); edges.push(...{from: q, to: v, weight: 0})
Augmented(gr) ==
    LET q == JohnsonQ(gr)
        vs == Append(gr.vertices, q)
    IN  MakeGraph(vs,
            gr.edges \o [i \in 1..Len(gr.vertices) |-> Edge(q, gr.vertices[i], Some(0))])

\* weight: (edge.weight || 1) + distances[edge.from] - distances[edge.to]
Reweighted(gr, h) ==
    MakeGraph(gr.vertices,
        [i \in 1..Len(gr.edges) |->
            [gr.edges[i] EXCEPT !.weight =
                Some(EffWeight(gr.edges[i]) + h[gr.edges[i].from] - h[gr.edges[i].to])]])

\* result[from][to], computed from the map dijkstra(from) returned
JohnsonRow(d, from, vs) ==
    [to \in Range(vs) |->
        IF d[to] = Infinity THEN Infinity ELSE d[to] + d[to] - d[from]]

\* johnson(): the set of outcomes [err, result]
Johnson(gr) ==
    LET bf == BellmanFord(Augmented(gr), JohnsonQ(gr))
    IN  IF bf.err # NoError THEN {[err |-> ValidationError, result |-> <<>>]}
        ELSE
        LET rg == Reweighted(gr, bf.dist)
            V == Range(gr.vertices)
            runs(from) == Dijkstra(rg, from)
            rows(from) == {JohnsonRow(r.dist, from, gr.vertices) : r \in runs(from)}
        IN  IF \E from \in V : \E r \in runs(from) : ~r.done
            THEN {[err |-> Diverged, result |-> <<>>]}
            ELSE {[err |-> NoError, result |-> f] :
                    f \in {f \in [V -> UNION {rows(v) : v \in V}] :
                              \A v \in V : f[v] \in rows(v)}}

(***************************************************************************)
(* What the shortest-path claims speak of: the weight of an edge as the    *)
(* data model gives it (absent: 1, otherwise the weight, 0 included), and  *)
(* the least total weight of a walk of at most k edges.                    *)
(***************************************************************************)
StatedWeight(e) == IF e.weight = NoValue THEN 1 ELSE e.weight[1]

MinOf(S) == CHOOSE x \in S : \A y \in S : x <= y

Plus(a, b) == IF a = Infinity THEN Infinity ELSE a + b

\* WalkDist(gr, W, u, k)[v]: least total W-weight of a walk u ~> v of <= k edges
RECURSIVE WalkDist(_, _, _, _)
WalkDist(gr, W(_), u, k) ==
    IF k = 0 THEN [v \in Range(gr.vertices) |-> IF v = u THEN 0 ELSE Infinity]
    ELSE LET p == WalkDist(gr, W, u, k - 1)
         IN  [v \in Range(gr.vertices) |->
                MinOf({p[v]} \cup {Plus(p[gr.edges[i].from], W(gr.edges[i])) :
                                     i \in {j \in 1..Len(gr.edges) : gr.edges[j].to = v}})]

NumVertices(gr) == Cardinality(Range(gr.vertices))

\* the vertices that lie on a closed walk of negative total W-weight
OnNegativeCycle(gr, W(_)) ==
    {v \in Range(gr.vertices) :
        \E i \in 1..Len(gr.edges) :
            /\ gr.edges[i].to = v
            /\ Plus(WalkDist(gr, W, v, NumVertices(gr) - 1)[gr.edges[i].from],
                    W(gr.edges[i])) < 0}

HasNegativeCycle(gr, W(_)) == OnNegativeCycle(gr, W) # {}

\* a negative cycle can be reached from start
NegativeCycleReachable(gr, W(_), start) ==
    \E v \in OnNegativeCycle(gr, W) :
        WalkDist(gr, W, start, NumVertices(gr) - 1)[v] # Infinity

\* the true shortest distances from u (meaningful without a negative cycle)
ShortestFrom(gr, W(_), u) == WalkDist(gr, W, u, NumVertices(gr) - 1)

(***************************************************************************)
(* The shortest-path specification: a weighted graph is constructed, then  *)
(* bellmanFord, dijkstra and johnson are called on it.                     *)
(***************************************************************************)
\* the graphs of the shortest-path specification have vertices 0..n-1, in
\* order, for n among PathVertexCounts (a fourth vertex multiplies the graphs
\* by more than TLC can visit)
PathVertexCounts == 1..3
\* and at most MaxPathEdges edges, parallel edges and self-loops included
MaxPathEdges == 2

\* the weights an edge may carry: absent, negative, zero, positive
PathWeights == {NoValue, Some(-1), Some(0), Some(3)}

PathVertices(n) == [i \in 1..n |-> i - 1]

PathEdges(n) == {Edge(f, t, w) : f \in 0..(n-1), t \in 0..(n-1), w \in PathWeights}

InitPaths ==
    /\ has = TRUE
    /\ \E n \in PathVertexCounts : \E k \in 0..MaxPathEdges :
         \E es \in [1..k -> PathEdges(n)] :
            /\ ConstructErr(PathVertices(n), es) = NoError
            /\ g = MakeGraph(PathVertices(n), es)
    /\ op = "new"
    /\ arg = NoValue
    /\ err = NoError
    /\ out = NoValue

BellmanFordCall(start) ==
    /\ has /\ op = "new"
    /\ LET r == BellmanFord(g, start)
       IN  /\ err' = r.err
           /\ out' = IF r.err = NoError THEN r.dist ELSE NoValue
    /\ op' = "bellmanFord"
    /\ arg' = start
    /\ UNCHANGED <<has, g>>

DijkstraCall(start) ==
    /\ has /\ op = "new"
    /\ \E r \in Dijkstra(g, start) :
           /\ err' = IF r.done THEN NoError ELSE Diverged
           /\ out' = IF r.done THEN r.dist ELSE NoValue
    /\ op' = "dijkstra"
    /\ arg' = start
    /\ UNCHANGED <<has, g>>

JohnsonCall ==
    /\ has /\ op = "new"
    /\ \E r \in Johnson(g) :
           /\ err' = r.err
           /\ out' = r.result
    /\ op' = "johnson"
    /\ arg' = NoValue
    /\ UNCHANGED <<has, g>>

NextPaths ==
    \/ \E start \in Range(g.vertices) : BellmanFordCall(start)
    \/ \E start \in Range(g.vertices) : DijkstraCall(start)
    \/ JohnsonCall

SpecPaths == InitPaths /\ [][NextPaths]_vars

(***************************************************************************)
(* The run specification: dijkstra(start) one loop iteration at a time.    *)
(* out holds its locals [d, q] and arg its start.  The loop compares sums  *)
(* of a distance and a weight with a distance, and the queue compares the  *)
(* weights of its items, so the loop takes the same course when the same   *)
(* number is added to every finite distance and every item: the locals are *)
(* kept up to such a shift, the least finite distance being 0; turn is the *)
(* number of iterations taken so far, modulo 2.  The code runs to the end  *)
(* without interruption, so an iteration that can be taken is taken.       *)
(***************************************************************************)
\* the run is followed while no distance and no item of the queue lies more
\* than MaxSpread above the least distance
MaxSpread == 7

\* the locals st = [d, q] with the least finite distance taken as 0
Shifted(st) ==
    LET low == MinOf({st.d[v] : v \in DOMAIN st.d})
    IN  [d |-> [v \in DOMAIN st.d |->
                  IF st.d[v] = Infinity THEN Infinity ELSE st.d[v] - low],
         q |-> [i \in 1..Len(st.q) |-> [st.q[i] EXCEPT !.weight = @ - low]]]

\* the model has stopped following the run
Cut ==
    /\ op = "running"
    /\ \/ \E v \in Range(g.vertices) : out[1].d[v] # Infinity /\ out[1].d[v] > MaxSpread
       \/ \E i \in 1..Len(out[1].q) : out[1].q[i].weight > MaxSpread

\* lines 656-660: the locals before the loop
DijkstraStart(start) ==
    /\ has /\ op = "new"
    /\ op' = "running"
    /\ arg' = Some(start)
    /\ out' = Some([d |-> InitDistances(g.vertices, start),
                    q |-> <<[vertex |-> start, weight |-> 0]>>,
                    turn |-> 0])
    /\ UNCHANGED <<has, g, err>>

\* lines 662-670: one iteration of while (!queue.isEmpty())
DijkstraIterate ==
    /\ op = "running"
    /\ out[1].q # <<>>
    /\ ~Cut
    /\ \E i \in MinIdx(out[1].q) :
         LET st == Shifted(DijkstraVisit(g.edges, 1, out[1].q[i].vertex,
                                         [d |-> out[1].d, q |-> RemoveAt(out[1].q, i)]))
         IN  out' = Some([d |-> st.d, q |-> st.q, turn |-> (out[1].turn + 1) % 2])
    /\ UNCHANGED <<has, g, op, arg, err>>

\* line 672: return distances
DijkstraReturn ==
    /\ op = "running"
    /\ out[1].q = <<>>
    /\ op' = "returned"
    /\ UNCHANGED <<has, g, arg, err, out>>

NextRun ==
    \/ \E start \in Range(g.vertices) : DijkstraStart(start)
    \/ DijkstraIterate
    \/ DijkstraReturn

SpecRun == InitPaths /\ [][NextRun]_vars /\ WF_vars(NextRun)

\* C26: every call of dijkstra(start) eventually returns or throws, whatever
\* the weights, a negative cycle that start reaches included (and so do
\* bellmanFord, johnson, HL, DFS, BFS and decompose); stated of the runs
\* that are followed to their end.
C26_Termination == (op = "running") ~> (op = "returned" \/ Cut)

(***************************************************************************)
(* Claims about the shortest-path engine (checked under SpecPaths).        *)
(***************************************************************************)
UnitWeight(e) == 1

\* the graph has a directed cycle (a self-loop included)
HasCycle(gr) ==
    \E i \in 1..Len(gr.edges) :
        WalkDist(gr, UnitWeight, gr.edges[i].to, NumVertices(gr) - 1)[gr.edges[i].from]
            # Infinity

NonNegativeWeights(gr) == \A i \in 1..Len(gr.edges) : StatedWeight(gr.edges[i]) >= 0

\* C2: without a negative-weight cycle (absent weight = 1), johnson() returns
\* for every ordered pair (u, v) the least total weight of a path u ~> v, 0 for
\* u = v and Infinity when v cannot be reached from u.
C2_JohnsonTrueDistances ==
    (op = "johnson" /\ ~HasNegativeCycle(g, StatedWeight)) =>
        /\ err = NoError
        /\ \A u \in Range(g.vertices) : out[u] = ShortestFrom(g, StatedWeight, u)

\* C3: on an acyclic graph with non-negative weights, johnson()[u][v] equals
\* dijkstra(u)[v] on the original graph, for all u, v.
C3_JohnsonMatchesDijkstra ==
    (op = "johnson" /\ ~HasCycle(g) /\ NonNegativeWeights(g)) =>
        /\ err = NoError
        /\ \A u \in Range(g.vertices) : \A r \in Dijkstra(g, u) :
              r.done /\ out[u] = r.dist

\* C5: with no negative-weight cycle reachable from start, bellmanFord(start)
\* maps every vertex to the least total weight of a path from start, an edge
\* counting its weight when present (0 included) and 1 only when absent.
C5_BellmanFordStatedWeights ==
    (op = "bellmanFord" /\ ~NegativeCycleReachable(g, StatedWeight, arg)) =>
        /\ err = NoError
        /\ out = ShortestFrom(g, StatedWeight, arg)

\* C6: bellmanFord(start) throws GraphValidationError exactly when a cycle of
\* negative total weight is reachable from start, and johnson() exactly when
\* the graph has a negative-weight cycle anywhere; otherwise both return.
C6_NegativeCycleDetected ==
    /\ op = "bellmanFord" =>
         err = IF NegativeCycleReachable(g, StatedWeight, arg)
               THEN ValidationError ELSE NoError
    /\ op = "johnson" =>
         err = IF HasNegativeCycle(g, StatedWeight) THEN ValidationError ELSE NoError

\* C7: with non-negative weights, dijkstra(start) returns the same distance
\* map as bellmanFord(start), for every start vertex of the graph.
C7_DijkstraMatchesBellmanFord ==
    (op = "dijkstra" /\ NonNegativeWeights(g)) =>
        /\ err = NoError
        /\ BellmanFord(g, arg).err = NoError
        /\ out = BellmanFord(g, arg).dist

\* a dijkstra call that returned on a non-negative graph with a two-edge
\* shortest path: start -> middle -> v
C7_Witness ==
    /\ op = "dijkstra" /\ err = NoError /\ NonNegativeWeights(g)
    /\ Len(g.edges) >= 2
    /\ \E v \in Range(g.vertices) :
          /\ v # arg /\ out[v] # Infinity
          /\ ~ \E i \in 1..Len(g.edges) : g.edges[i].from = arg /\ g.edges[i].to = v

(***************************************************************************)
(* Hierarchy levels (HL).                                                   *)
(***************************************************************************)
\* new Set(array): the distinct elements in the order of first occurrence
RECURSIVE Dedupe(_)
Dedupe(s) ==
    IF s = <<>> THEN <<>>
    ELSE LET front == Dedupe(SubSeq(s, 1, Len(s) - 1))
             last == s[Len(s)]
         IN  IF Includes(front, last) THEN front ELSE Append(front, last)

\* SelectSeq(s, keep): the elements of s that are in the set keep, in order
KeepIn(s, keep) == LET Test(x) == x \in keep IN SelectSeq(s, Test)

\* inDegree after the two forEach loops: the number of edges into each vertex
InDegree(gr) ==
    [v \in Range(gr.vertices) |->
        Cardinality({i \in 1..Len(gr.edges) : gr.edges[i].to = v})]

\* the vertices of verticesLeft whose in-degree is 0, in the Set's order
HLCurrentLevelFirstOnly(left, deg) ==
    LET zero == KeepIn(left, {v \in Range(left) : deg[v] = 0})
    IN  IF zero = <<>> THEN <<>> ELSE <<zero[1]>>

HLCurrentLevel(left, deg) == KeepIn(left, {v \in Range(left) : deg[v] = 0})

\* verticesLeft.delete(v), then one decrement per edge v -> to with to left
HLRemoveVertex(es, v, st) ==
    LET left == KeepIn(st.left, Range(st.left) \ {v})
    IN  [left |-> left,
         deg |-> [t \in DOMAIN st.deg |->
                    IF t \in Range(left)
                    THEN st.deg[t] - Cardinality({i \in 1..Len(es) :
                                        es[i].from = v /\ es[i].to = t})
                    ELSE st.deg[t]]]

\* for (const v of currentLevel)
RECURSIVE HLRemoveLevel(_, _, _, _)
HLRemoveLevel(es, level, k, st) ==
    IF k > Len(level) THEN st
    ELSE HLRemoveLevel(es, level, k + 1, HLRemoveVertex(es, level[k], st))

\* the loop with "break" (the commented-out line 495) in place of the throw
RECURSIVE HLLoopBreak(_, _, _)
HLLoopBreak(es, st, levels) ==
    IF st.left = <<>> THEN [err |-> NoError, levels |-> levels]
    ELSE LET cur == HLCurrentLevel(st.left, st.deg)
         IN  IF cur = <<>> THEN [err |-> NoError, levels |-> levels]
             ELSE HLLoopBreak(es, HLRemoveLevel(es, cur, 1, st), Append(levels, cur))

\* while (verticesLeft.size > 0)
RECURSIVE HLLoop(_, _, _)
HLLoop(es, st, levels) ==
    IF st.left = <<>> THEN [err |-> NoError, levels |-> levels]
    ELSE LET cur == HLCurrentLevel(st.left, st.deg)
         IN  IF cur = <<>> THEN [err |-> ValidationError, levels |-> <<>>]
             ELSE HLLoop(es, HLRemoveLevel(es, cur, 1, st), Append(levels, cur))

\* get HL(): [err, levels]
HL(gr) ==
    IF Len(gr.vertices) = 0 THEN [err |-> ValidationError, levels |-> <<>>]
    ELSE HLLoop(gr.edges, [left |-> Dedupe(gr.vertices), deg |-> InDegree(gr)], <<>>)

(***************************************************************************)
(* The structure specification: an unweighted graph is constructed from any *)
(* vertex sequence (any order, repeated vertices included), then analysed.  *)
(***************************************************************************)
\* vertex ids of the structure specification
LevelIds == 0..2
\* its vertex sequences have at most Cardinality(LevelIds) elements
LevelVertexSeqs == SeqsUpTo(LevelIds, Cardinality(LevelIds))
\* and at most MaxLevelEdges edges, parallel edges and self-loops included
MaxLevelEdges == 3

InitLevels ==
    /\ has = TRUE
    /\ \E vs \in LevelVertexSeqs : \E k \in 0..MaxLevelEdges :
         \E es \in [1..k -> {Edge(f, t, NoValue) : f \in Range(vs), t \in Range(vs)}] :
            /\ ConstructErr(vs, es) = NoError
            /\ g = MakeGraph(vs, es)
    /\ op = "new"
    /\ arg = NoValue
    /\ err = NoError
    /\ out = NoValue

HLCall ==
    /\ has /\ op = "new"
    /\ LET r == HL(g)
       IN  /\ err' = r.err
           /\ out' = r.levels
    /\ op' = "HL"
    /\ arg' = NoValue
    /\ UNCHANGED <<has, g>>

NextLevels == HLCall

SpecLevels == InitLevels /\ [][NextLevels]_vars

\* the positions <<i, j>> of the levels at which vertex v stands
LevelPositions(levels, v) ==
    {p \in {<<i, j>> : i \in 1..Len(levels), j \in 1..MaxOf({0} \cup {Len(levels[i]) : i \in 1..Len(levels)})} :
        p[2] <= Len(levels[p[1]]) /\ levels[p[1]][p[2]] = v}

LevelOf(levels, v) == (CHOOSE p \in LevelPositions(levels, v) : TRUE)[1]

\* C10: on a non-empty acyclic graph HL returns levels that partition the
\* vertex set (each vertex in exactly one level, no level empty); the first
\* level is exactly the vertices with no incoming edge; every edge goes from a
\* level to a strictly later one; within a level the vertices stand in the
\* order of the vertex sequence.
C10_HLLevels ==
    (op = "HL" /\ g.vertices # <<>> /\ ~HasCycle(g)) =>
        /\ err = NoError
        /\ \A i \in 1..Len(out) : out[i] # <<>> /\ Range(out[i]) \subseteq Range(g.vertices)
        /\ \A v \in Range(g.vertices) : Cardinality(LevelPositions(out, v)) = 1
        /\ Range(out[1]) = {v \in Range(g.vertices) :
                               \A i \in 1..Len(g.edges) : g.edges[i].to # v}
        /\ \A i \in 1..Len(g.edges) :
              LevelOf(out, g.edges[i].from) < LevelOf(out, g.edges[i].to)
        /\ \A i \in 1..Len(out) : \A j, k \in 1..Len(out[i]) :
              j < k => IndexOf(g.vertices, out[i][j]) < IndexOf(g.vertices, out[i][k])

\* HL returned two levels on an acyclic graph, one of them holding two
\* vertices that stand in the vertex sequence against their numeric order
C10_Witness ==
    /\ op = "HL" /\ err = NoError /\ ~HasCycle(g)
    /\ Len(out) = 2 /\ Len(g.edges) >= 2
    /\ \E i \in 1..2 : Len(out[i]) = 2 /\ out[i][1] > out[i][2]

\* C11: HL fails with GraphValidationError on a graph without vertices and on
\* a graph with a directed cycle (a self-loop, or a cycle met only after some
\* levels were extracted); no list of levels, partial or not, is returned.
C11_HLRejectsEmptyAndCyclic ==
    (op = "HL" /\ (g.vertices = <<>> \/ HasCycle(g))) =>
        (err = ValidationError /\ out = <<>>)

\* HL threw on a graph that has a vertex without incoming edges (a first
\* level exists) and a cycle behind it
C11_Witness ==
    /\ op = "HL" /\ err = ValidationError
    /\ HasCycle(g)
    /\ \E v \in Range(g.vertices) : \A i \in 1..Len(g.edges) : g.edges[i].to # v
    /\ \E i \in 1..Len(g.edges) : g.edges[i].from # g.edges[i].to

(***************************************************************************)
(* Reachability search (DFS, BFS).                                          *)
(***************************************************************************)
RECURSIVE DfsHelper(_, _, _, _)
RECURSIVE DfsEdges(_, _, _, _, _)
RECURSIVE DfsEdgesFirstOnly(_, _, _, _, _)

\* the for-of of _dfshelper with "return this._dfshelper(...)" as its body:
\* the answer of the first unvisited neighbour is final
DfsEdgesFirstOnly(es, k, from, to, st) ==
    IF k > Len(es) THEN [found |-> FALSE, visited |-> st.visited, expanded |-> st.expanded]
    ELSE IF es[k].from = from /\ es[k].to \notin st.visited
         THEN DfsHelper(es, es[k].to, to, st)
         ELSE DfsEdgesFirstOnly(es, k + 1, from, to, st)

\* for (const edge of this._edges) of _dfshelper, from edge k on; st holds
\* the Set visited and the sequence of vertices _dfshelper was called with
DfsEdges(es, k, from, to, st) ==
    IF k > Len(es) THEN [found |-> FALSE, visited |-> st.visited, expanded |-> st.expanded]
    ELSE IF es[k].from = from /\ es[k].to \notin st.visited
         THEN LET r == DfsHelper(es, es[k].to, to, st)
              IN  IF r.found THEN r
                  ELSE DfsEdges(es, k + 1, from, to,
                                [visited |-> r.visited, expanded |-> r.expanded])
         ELSE DfsEdges(es, k + 1, from, to, st)

\* _dfshelper(from, to, visited)
DfsHelper(es, from, to, st) ==
    LET entered == [visited |-> st.visited \cup {from},
                    expanded |-> Append(st.expanded, from)]
    IN  IF from = to
        THEN [found |-> TRUE, visited |-> entered.visited, expanded |-> entered.expanded]
        ELSE DfsEdges(es, 1, from, to, entered)

\* DFS(from, to): [result, expanded]
DFS(gr, from, to) ==
    LET r == DfsHelper(gr.edges, from, to, [visited |-> {}, expanded |-> <<>>])
    IN  [result |-> r.found, expanded |-> r.expanded]

\* the for-of of BFS that stops after the first push
RECURSIVE BfsEnqueueFirstOnly(_, _, _, _, _)
BfsEnqueueFirstOnly(es, k, current, visited, queue) ==
    IF k > Len(es) THEN queue
    ELSE IF es[k].from = current /\ es[k].to \notin visited /\ ~Includes(queue, es[k].to)
         THEN Append(queue, es[k].to)
         ELSE BfsEnqueueFirstOnly(es, k + 1, current, visited, queue)

\* for (const edge of this._edges) of BFS, from edge k on
RECURSIVE BfsEnqueue(_, _, _, _, _)
BfsEnqueue(es, k, current, visited, queue) ==
    IF k > Len(es) THEN queue
    ELSE BfsEnqueue(es, k + 1, current, visited,
             IF es[k].from = current /\ es[k].to \notin visited /\ ~Includes(queue, es[k].to)
             THEN Append(queue, es[k].to)
             ELSE queue)

\* while (queue.length > 0)
RECURSIVE BfsLoop(_, _, _, _)
BfsLoop(es, to, visited, queue) ==
    IF queue = <<>> THEN FALSE
    ELSE IF Head(queue) = to THEN TRUE
    ELSE BfsLoop(es, to, visited \cup {Head(queue)},
                 BfsEnqueue(es, 1, Head(queue), visited \cup {Head(queue)}, Tail(queue)))

\* BFS(from, to)
BFS(gr, from, to) == BfsLoop(gr.edges, to, {}, <<from>>)

(***************************************************************************)
(* The search specification: a graph of the structure specification is     *)
(* constructed, then searched between two numbers (vertices or not).       *)
(***************************************************************************)
DFSCall(from, to) ==
    /\ has /\ op = "new"
    /\ op' = "DFS"
    /\ arg' = [from |-> from, to |-> to]
    /\ err' = NoError
    /\ out' = DFS(g, from, to)
    /\ UNCHANGED <<has, g>>

BFSCall(from, to) ==
    /\ has /\ op = "new"
    /\ op' = "BFS"
    /\ arg' = [from |-> from, to |-> to]
    /\ err' = NoError
    /\ out' = BFS(g, from, to)
    /\ UNCHANGED <<has, g>>

NextSearch ==
    \/ \E from \in LevelIds : \E to \in LevelIds : DFSCall(from, to)
    \/ \E from \in LevelIds : \E to \in LevelIds : BFSCall(from, to)

SpecSearch == InitLevels /\ [][NextSearch]_vars

\* a directed path (of length >= 0) leads from vertex u to vertex v
Reaches(gr, u, v) == WalkDist(gr, UnitWeight, u, NumVertices(gr) - 1)[v] # Infinity

\* C14: for two vertices of the graph, DFS(from, to) is true iff a directed
\* path of length >= 0 leads from `from` to `to`; the search ends on every
\* graph, cycles included, and _dfshelper is entered at most once per vertex.
C14_DFSReachability ==
    (op = "DFS" /\ arg.from \in Range(g.vertices) /\ arg.to \in Range(g.vertices)) =>
        /\ out.result = Reaches(g, arg.from, arg.to)
        /\ \A i, j \in 1..Len(out.expanded) :
              i # j => out.expanded[i] # out.expanded[j]
        /\ Range(out.expanded) \subseteq Range(g.vertices)

\* DFS found its target on a graph with a cycle after backing out of a
\* neighbour that did not lead there
C14_Witness ==
    /\ op = "DFS" /\ out.result /\ HasCycle(g)
    /\ arg.from # arg.to
    /\ Len(out.expanded) = 3
    /\ \A i \in 1..Len(g.edges) :
          ~(g.edges[i].from = out.expanded[2] /\ g.edges[i].to = arg.to)

\* C15: BFS(from, to) returns the boolean that DFS(from, to) returns, on every
\* graph (cycles, self-loops, parallel edges) and for every pair, from = to
\* included.
C15_BFSMatchesDFS ==
    (op = "BFS") => (out = DFS(g, arg.from, arg.to).result)

\* BFS found a target two edges away on a graph with a self-loop
C15_Witness ==
    /\ op = "BFS" /\ out = TRUE
    /\ arg.from # arg.to
    /\ \E i \in 1..Len(g.edges) : g.edges[i].from = g.edges[i].to
    /\ \A i \in 1..Len(g.edges) : ~(g.edges[i].from = arg.from /\ g.edges[i].to = arg.to)

(***************************************************************************)
(* decompose: strongly connected components and the links between them.    *)
(* A JavaScript Set of objects is the sequence of its insertions.          *)
(***************************************************************************)
\* the component of firstVertex with R and Q exchanged for R alone
ComponentForwardOnly(gr, left) ==
    LET InR(v) == DFS(gr, left[1], v).result
    IN  SelectSeq(left, InR)

\* the component of firstVertex taken to be firstVertex alone
ComponentFirstOnly(gr, left) == <<left[1]>>

\* [...R].filter(vertex => Q.has(vertex)) for firstVertex = left[1]
Component(gr, left) ==
    LET InBoth(v) == DFS(gr, left[1], v).result /\ DFS(gr, v, left[1]).result
    IN  SelectSeq(left, InBoth)

\* { vertices: intersection, edges: this._edges.filter(...) }
SubGraph(gr, comp) ==
    LET Inside(e) == Includes(comp, e.from) /\ Includes(comp, e.to)
    IN  MakeGraph(comp, SelectSeq(gr.edges, Inside))

\* while (notUsedV.size > 0): the sub-graphs in the order they are added
RECURSIVE DecomposeLoop(_, _, _)
DecomposeLoop(gr, left, subs) ==
    IF left = <<>> THEN subs
    ELSE LET comp == Component(gr, left)
         IN  DecomposeLoop(gr, KeepIn(left, Range(left) \ Range(comp)),
                           Append(subs, SubGraph(gr, comp)))

\* vertexToSubIndex.get(v): the last sub-graph holding v wins; indices from 0
SubIndex(subs, v) ==
    LET holders == {i \in 1..Len(subs) : Includes(subs[i].vertices, v)}
    IN  IF holders = {} THEN NoValue ELSE Some(MaxOf(holders) - 1)

\* the forEach of step 3 that adds a link for every edge between components
RECURSIVE LinksLoopNoDedupe(_, _, _, _)
LinksLoopNoDedupe(es, k, subs, links) ==
    IF k > Len(es) THEN links
    ELSE LET fi == SubIndex(subs, es[k].from)
             ti == SubIndex(subs, es[k].to)
         IN  LinksLoopNoDedupe(es, k + 1, subs,
                 IF fi # NoValue /\ ti # NoValue /\ fi # ti
                 THEN Append(links, [from |-> fi[1], to |-> ti[1]])
                 ELSE links)

\* this._edges.forEach of step 3, from edge k on
RECURSIVE LinksLoop(_, _, _, _)
LinksLoop(es, k, subs, links) ==
    IF k > Len(es) THEN links
    ELSE LET fi == SubIndex(subs, es[k].from)
             ti == SubIndex(subs, es[k].to)
         IN  LinksLoop(es, k + 1, subs,
                 IF /\ fi # NoValue /\ ti # NoValue /\ fi # ti
                    /\ ~Includes(links, [from |-> fi[1], to |-> ti[1]])
                 THEN Append(links, [from |-> fi[1], to |-> ti[1]])
                 ELSE links)

\* decompose(): [subGraphs, links]
Decompose(gr) ==
    LET subs == DecomposeLoop(gr, Dedupe(gr.vertices), <<>>)
    IN  [subGraphs |-> subs, links |-> LinksLoop(gr.edges, 1, subs, <<>>)]

(***************************************************************************)
(* The decomposition specification.                                        *)
(***************************************************************************)
DecomposeCall ==
    /\ has /\ op = "new"
    /\ op' = "decompose"
    /\ arg' = NoValue
    /\ err' = NoError
    /\ out' = Decompose(g)
    /\ UNCHANGED <<has, g>>

NextDecompose == DecomposeCall

SpecDecompose == InitLevels /\ [][NextDecompose]_vars

\* u and v are reachable from each other
SameComponent(gr, u, v) == Reaches(gr, u, v) /\ Reaches(gr, v, u)

\* the vertices of the vertex sequence that stand in none of the first n sub-graphs
Unassigned(gr, subs, n) ==
    LET Free(v) == \A i \in 1..n : ~Includes(subs[i].vertices, v)
    IN  SelectSeq(gr.vertices, Free)

\* C12: the vertex sets of the sub-graphs of decompose() partition the vertex
\* set; each is one strongly connected component (two vertices share a
\* sub-graph iff each is reachable from the other); each sub-graph holds
\* exactly the original edges with both endpoints in it; the sub-graphs come
\* in the order of the first not yet assigned vertex of the vertex sequence.
C12_DecomposeComponents ==
    (op = "decompose") =>
        LET subs == out.subGraphs
        IN  /\ \A v \in Range(g.vertices) :
                  Cardinality({i \in 1..Len(subs) : v \in Range(subs[i].vertices)}) = 1
            /\ \A i \in 1..Len(subs) :
                  /\ subs[i].vertices # <<>>
                  /\ Range(subs[i].vertices) \subseteq Range(g.vertices)
                  /\ \A j, k \in 1..Len(subs[i].vertices) :
                        j # k => subs[i].vertices[j] # subs[i].vertices[k]
                  /\ \A u \in Range(subs[i].vertices) : \A v \in Range(g.vertices) :
                        (v \in Range(subs[i].vertices)) <=> SameComponent(g, u, v)
                  /\ LET Inside(e) == /\ e.from \in Range(subs[i].vertices)
                                       /\ e.to \in Range(subs[i].vertices)
                     IN  subs[i].edges = SelectSeq(g.edges, Inside)
                  /\ subs[i].vertices[1] = Unassigned(g, subs, i - 1)[1]

\* decompose() returned a component of two vertices after a component of
\* one, on a vertex sequence that is not in ascending order
C12_Witness ==
    /\ op = "decompose"
    /\ Len(out.subGraphs) = 2
    /\ Len(out.subGraphs[1].vertices) = 1
    /\ Len(out.subGraphs[2].vertices) = 2
    /\ Len(out.subGraphs[2].edges) >= 2
    /\ g.vertices[1] > g.vertices[2]

\* the index (from 0) of the sub-graph whose vertices include v
ComponentIndex(subs, v) == (CHOOSE i \in 1..Len(subs) : v \in Range(subs[i].vertices)) - 1

\* C13: the links of decompose() are exactly the condensation edges: a link
\* {from: i, to: j} is there iff i # j and some edge leads from a vertex of
\* sub-graph i to a vertex of sub-graph j, and no ordered pair is there twice.
C13_DecomposeLinks ==
    (op = "decompose") =>
        /\ Range(out.links) =
              {[from |-> ComponentIndex(out.subGraphs, g.edges[k].from),
                to |-> ComponentIndex(out.subGraphs, g.edges[k].to)] :
                 k \in {n \in 1..Len(g.edges) :
                          ComponentIndex(out.subGraphs, g.edges[n].from)
                              # ComponentIndex(out.subGraphs, g.edges[n].to)}}
        /\ \A i, j \in 1..Len(out.links) : i # j => out.links[i] # out.links[j]

\* two parallel edges between two components gave one link
C13_Witness ==
    /\ op = "decompose"
    /\ Len(out.links) = 1
    /\ \E i, j \in 1..Len(g.edges) :
          /\ i # j
          /\ g.edges[i] = g.edges[j]
          /\ g.edges[i].from # g.edges[i].to
          /\ ~Reaches(g, g.edges[i].to, g.edges[i].from)

(***************************************************************************)
(* Factories.  Each returns [err, graph]; graph is meaningful when err is   *)
(* NoError.  A matrix is a sequence of rows; a cell of a distance matrix is *)
(* NoValue (null) or Some(d).  An incidence list is a function from its     *)
(* keys to sequences of vertices; Object.keys and Object.entries list       *)
(* integer keys in ascending order.                                        *)
(***************************************************************************)
Construct(vs, es) ==
    [err |-> ConstructErr(vs, es),
     graph |-> IF ConstructErr(vs, es) = NoError THEN MakeGraph(vs, es) ELSE EmptyGraph]

Failure(e) == [err |-> e, graph |-> EmptyGraph]

RECURSIVE Concat(_)
Concat(ss) == IF ss = <<>> THEN <<>> ELSE Head(ss) \o Concat(Tail(ss))

\* matrix.length > 0 && !matrix.every(row => row.length === matrix.length)
NotSquare(m) == Len(m) > 0 /\ \E i \in 1..Len(m) : Len(m[i]) # Len(m)

\* matrix.map((_, i) => i)
RowIndices(m) == [i \in 1..Len(m) |-> i - 1]

\* fromAdjMatrix with the edge of cell (i, j) drawn as j -> i
FromAdjMatrixTransposed(m) ==
    IF NotSquare(m) THEN Failure(ArgumentError)
    ELSE Construct(RowIndices(m),
            Concat([i \in 1..Len(m) |->
                Concat([j \in 1..Len(m[i]) |->
                    IF m[i][j] # 0 THEN <<Edge(j - 1, i - 1, NoValue)>> ELSE <<>>])]))

\* fromAdjMatrix
FromAdjMatrix(m) ==
    IF NotSquare(m) THEN Failure(ArgumentError)
    ELSE Construct(RowIndices(m),
            Concat([i \in 1..Len(m) |->
                Concat([j \in 1..Len(m[i]) |->
                    IF m[i][j] # 0 THEN <<Edge(i - 1, j - 1, NoValue)>> ELSE <<>>])]))

\* the object literal { from: i, to: j, distance }
DistanceEdge(i, j, d) == [from |-> i, to |-> j, weight |-> NoValue, distance |-> Some(d)]

\* fromDisMatrix
FromDisMatrix(m) ==
    IF NotSquare(m) THEN Failure(ArgumentError)
    ELSE Construct(RowIndices(m),
            Concat([i \in 1..Len(m) |->
                Concat([j \in 1..Len(m[i]) |->
                    IF i # j /\ m[i][j] # NoValue
                    THEN <<DistanceEdge(i - 1, j - 1, m[i][j][1])>> ELSE <<>>])]))

\* the elements of a finite set of integers in ascending order
RECURSIVE SortedKeys(_)
SortedKeys(K) ==
    IF K = {} THEN <<>> ELSE <<MinOf(K)>> \o SortedKeys(K \ {MinOf(K)})

\* side === 'left' ? { from: +value, to: +key } : { from: +key, to: +value }
IncListEdge(key, value, side) ==
    IF side = "left" THEN Edge(value, key, NoValue) ELSE Edge(key, value, NoValue)

\* fromIncList
FromIncList(list, side) ==
    IF side # "left" /\ side # "right" THEN Failure(ArgumentError)
    ELSE LET keys == SortedKeys(DOMAIN list)
         IN  Construct(keys,
                Concat([k \in 1..Len(keys) |->
                    [j \in 1..Len(list[keys[k]]) |->
                        IncListEdge(keys[k], list[keys[k]][j], side)]]))

\* A JSON text is modelled by what JSON.parse makes of it: parses is FALSE
\* when JSON.parse throws; data is NoValue for null, else a record whose
\* vertices and edges are NoValue when they are not arrays.
FromJSON(doc) ==
    IF ~doc.parses THEN Failure(ArgumentError)
    ELSE IF doc.data = NoValue THEN Failure(ArgumentError)
    ELSE IF doc.data[1].vertices = NoValue \/ doc.data[1].edges = NoValue
         THEN Failure(ArgumentError)
    ELSE Construct(doc.data[1].vertices[1], doc.data[1].edges[1])

(***************************************************************************)
(* Converters.                                                             *)
(***************************************************************************)
\* asIncList: leftInc[from].push(to), edge by edge
AsLeftIncList(gr) ==
    [v \in Range(gr.vertices) |->
        LET idx == SortedKeys({i \in 1..Len(gr.edges) : gr.edges[i].from = v})
        IN  [k \in 1..Len(idx) |-> gr.edges[idx[k]].to]]

\* asIncList: rightInc[to].push(from), edge by edge
AsRightIncList(gr) ==
    [v \in Range(gr.vertices) |->
        LET idx == SortedKeys({i \in 1..Len(gr.edges) : gr.edges[i].to = v})
        IN  [k \in 1..Len(idx) |-> gr.edges[idx[k]].from]]

(***************************************************************************)
(* Mutations.  Each returns [err, graph, same]: same is TRUE when the      *)
(* method returns the receiver itself ("return this"); graph is the        *)
(* receiver when the call changes nothing or throws.                       *)
(***************************************************************************)
\* return this
This(gr) == [err |-> NoError, graph |-> gr, same |-> TRUE]

\* return new Graph(...): r is what the constructor gave
Fresh(r) == [err |-> r.err, graph |-> r.graph, same |-> FALSE]

\* the call throws e
Throws(gr, e) == [err |-> e, graph |-> gr, same |-> FALSE]

\* withVertex without the test for a vertex that is already there
WithVertexAlwaysAppend(gr, v) ==
    Fresh(Construct(Append(gr.vertices, v), gr.edges))

WithVertex(gr, v) ==
    IF Includes(gr.vertices, v) THEN This(gr)
    ELSE Fresh(Construct(Append(gr.vertices, v), gr.edges))

\* withoutVertex with a filter that drops the edges leaving v only
WithoutVertexKeepIncoming(gr, v) ==
    IF ~Includes(gr.vertices, v) THEN This(gr)
    ELSE LET KeepV(x) == x # v
             KeepE(e) == e.from # v
             r == Construct(SelectSeq(gr.vertices, KeepV), SelectSeq(gr.edges, KeepE))
         IN  IF r.err = NoError THEN Fresh(r) ELSE Throws(gr, r.err)

WithoutVertex(gr, v) ==
    IF ~Includes(gr.vertices, v) THEN This(gr)
    ELSE LET KeepV(x) == x # v
             KeepE(e) == e.from # v /\ e.to # v
         IN  Fresh(Construct(SelectSeq(gr.vertices, KeepV), SelectSeq(gr.edges, KeepE)))

\* validateEdgeVertices
EdgeVerticesOk(gr, e) == Includes(gr.vertices, e.from) /\ Includes(gr.vertices, e.to)

\* this._edges.some(e => e.from === edge.from && e.to === edge.to)
HasEdge(gr, e) ==
    \E i \in 1..Len(gr.edges) : gr.edges[i].from = e.from /\ gr.edges[i].to = e.to

\* withEdge on an edge that passed validateEdge
WithEdge(gr, e) ==
    IF ~EdgeVerticesOk(gr, e) THEN Throws(gr, ValidationError)
    ELSE IF HasEdge(gr, e) THEN This(gr)
    ELSE Fresh(Construct(gr.vertices, Append(gr.edges, e)))

\* withoutEdge on an edge that passed validateEdge
WithoutEdge(gr, e) ==
    IF ~EdgeVerticesOk(gr, e) THEN Throws(gr, ValidationError)
    ELSE IF ~HasEdge(gr, e) THEN This(gr)
    ELSE LET Keep(x) == x.from # e.from \/ x.to # e.to
         IN  Fresh(Construct(gr.vertices, SelectSeq(gr.edges, Keep)))

Clone(gr) == Construct(gr.vertices, gr.edges)

(***************************************************************************)
(* Argument validation of the mutation methods.  An argument is a record   *)
(* [shape, ...]: shape tells what typeof finds, the other field is what    *)
(* the method reads from a well-formed argument.                           *)
(***************************************************************************)
\* validateVertex: typeof vertex !== 'number' throws
ValidateVertexErr(a) == IF a.shape = "number" THEN NoError ELSE ArgumentError

\* validateEdge: not an object, or from / to not numbers, throws
ValidateEdgeErr(a) == IF a.shape = "object" THEN NoError ELSE ArgumentError

\* withEdge that tests the endpoints before the shape of the argument
WithEdgeArgEndpointsFirst(gr, a) ==
    IF ~EdgeVerticesOk(gr, a.edge) THEN Throws(gr, ValidationError)
    ELSE IF ValidateEdgeErr(a) # NoError THEN Throws(gr, ArgumentError)
    ELSE WithEdge(gr, a.edge)

\* withVertex(vertex)
WithVertexArg(gr, a) ==
    IF ValidateVertexErr(a) # NoError THEN Throws(gr, ArgumentError)
    ELSE WithVertex(gr, a.value)

\* withoutVertex(vertex)
WithoutVertexArg(gr, a) ==
    IF ValidateVertexErr(a) # NoError THEN Throws(gr, ArgumentError)
    ELSE WithoutVertex(gr, a.value)

\* withEdge(edge)
WithEdgeArg(gr, a) ==
    IF ValidateEdgeErr(a) # NoError THEN Throws(gr, ArgumentError)
    ELSE WithEdge(gr, a.edge)

\* withoutEdge(edge)
WithoutEdgeArg(gr, a) ==
    IF ValidateEdgeErr(a) # NoError THEN Throws(gr, ArgumentError)
    ELSE WithoutEdge(gr, a.edge)

(***************************************************************************)
(* The lifecycle specification: no Graph exists at first; a Graph is made   *)
(* by the constructor or by a factory, and then mutated and cloned.  A call *)
(* that throws leaves the caller with the Graph it had.                     *)
(***************************************************************************)
\* vertex ids of the lifecycle specification
VertexIds == 0..2
\* longest vertex sequence handed to the constructor (repeats allowed)
MaxLen == 2
\* longest edge sequence handed to the constructor or grown by withEdge
MaxEdges == 2
\* an edge carries no weight, or one
LifeWeights == {NoValue, Some(5)}

LifeEdges == {Edge(f, t, w) : f \in VertexIds, t \in VertexIds, w \in LifeWeights}

\* largest dimension of a matrix handed to a factory
MaxDim == 2
AdjCells == {0, 1}
DisCells == {NoValue, Some(0), Some(4)}
\* longest neighbour sequence of an incidence list handed to fromIncList
NeighbourCounts == 0..2
Sides == {"left", "right", "up"}

Init ==
    /\ has = FALSE
    /\ g = EmptyGraph
    /\ op = "none"
    /\ arg = NoValue
    /\ err = NoError
    /\ out = NoValue

\* the caller receives r = [err, graph] from a call that makes a Graph
Receive(r) ==
    /\ err' = r.err
    /\ has' = (IF r.err = NoError THEN TRUE ELSE has)
    /\ g' = (IF r.err = NoError THEN r.graph ELSE g)
    /\ out' = NoValue

\* new Graph({vertices: vs, edges: es})
New(vs, es) ==
    /\ op = "none"
    /\ op' = "new"
    /\ arg' = [vertices |-> vs, edges |-> es]
    /\ Receive(Construct(vs, es))

FromAdjMatrixCall(m) ==
    /\ op = "none"
    /\ op' = "fromAdjMatrix"
    /\ arg' = m
    /\ Receive(FromAdjMatrix(m))

FromDisMatrixCall(m) ==
    /\ op = "none"
    /\ op' = "fromDisMatrix"
    /\ arg' = m
    /\ Receive(FromDisMatrix(m))

FromIncListCall(list, side) ==
    /\ op = "none"
    /\ op' = "fromIncList"
    /\ arg' = [list |-> list, side |-> side]
    /\ Receive(FromIncList(list, side))

WithVertexCall(v) ==
    /\ has
    /\ op' = "withVertex"
    /\ arg' = NoValue
    /\ Receive(WithVertex(g, v))

WithoutVertexCall(v) ==
    /\ has
    /\ op' = "withoutVertex"
    /\ arg' = NoValue
    /\ Receive(WithoutVertex(g, v))

WithEdgeCall(e) ==
    /\ has
    /\ Len(g.edges) < MaxEdges
    /\ op' = "withEdge"
    /\ arg' = NoValue
    /\ Receive(WithEdge(g, e))

WithoutEdgeCall(e) ==
    /\ has
    /\ op' = "withoutEdge"
    /\ arg' = NoValue
    /\ Receive(WithoutEdge(g, e))

CloneCall ==
    /\ has
    /\ op' = "clone"
    /\ arg' = NoValue
    /\ Receive(Clone(g))

FromJSONCall(doc) ==
    /\ op = "none"
    /\ op' = "fromJSON"
    /\ arg' = doc
    /\ Receive(FromJSON(doc))

\* the getter asIncList: the Graph is left alone, the caller holds both lists
AsIncListCall ==
    /\ has
    /\ op' = "asIncList"
    /\ arg' = NoValue
    /\ err' = NoError
    /\ out' = Some([leftInc |-> AsLeftIncList(g), rightInc |-> AsRightIncList(g)])
    /\ UNCHANGED <<has, g>>

\* the JSON texts handed to fromJSON
JsonTexts ==
    {[parses |-> FALSE, data |-> NoValue], [parses |-> TRUE, data |-> NoValue]}
    \cup {[parses |-> TRUE, data |-> Some([vertices |-> v, edges |-> e])] :
            v \in {NoValue} \cup {Some(vs) : vs \in SeqsUpTo(VertexIds, MaxLen)},
            e \in {NoValue} \cup {Some(es) : es \in SeqsUpTo(LifeEdges, 1)}}

Next ==
    \/ /\ op = "none"
       /\ \E k \in 0..MaxLen : \E vs \in [1..k -> VertexIds] :
            \E n \in 0..MaxEdges : \E es \in [1..n -> LifeEdges] : New(vs, es)
    \/ /\ op = "none"
       /\ \E n, k \in 0..MaxDim : \E m \in [1..n -> [1..k -> AdjCells]] :
            FromAdjMatrixCall(m)
    \/ /\ op = "none"
       /\ \E n, k \in 0..MaxDim : \E m \in [1..n -> [1..k -> DisCells]] :
            FromDisMatrixCall(m)
    \/ /\ op = "none"
       /\ \E K \in SUBSET (0..(MaxDim - 1)) :
            \E list \in [K -> UNION {[1..n -> 0..(MaxDim - 1)] : n \in NeighbourCounts}] :
              \E side \in Sides : FromIncListCall(list, side)
    \/ \E v \in VertexIds : WithVertexCall(v)
    \/ \E v \in VertexIds : WithoutVertexCall(v)
    \/ \E e \in LifeEdges : WithEdgeCall(e)
    \/ \E e \in LifeEdges : WithoutEdgeCall(e)
    \/ CloneCall
    \/ /\ op = "none"
       /\ \E doc \in JsonTexts : FromJSONCall(doc)
    \/ AsIncListCall

Spec == Init /\ [][Next]_vars

(***************************************************************************)
(* The editing specification: a Graph g is constructed, then one mutation  *)
(* method is called on it; the caller keeps g and receives the result.     *)
(***************************************************************************)
\* the vertex sequences of the graphs that are edited
EditVertexSeqs == {<<>>, <<0>>, <<0, 1>>, <<1, 0>>, <<0, 0, 1>>, <<0, 1, 2>>, <<2, 0, 1>>}

\* vertex arguments: the numbers of VertexIds, and something that is no number
VertexArgs ==
    {[shape |-> "number", value |-> v] : v \in VertexIds}
    \cup {[shape |-> "string", value |-> 0]}

\* edge arguments: every well-formed edge, and malformed ones (no object, or
\* an endpoint that is no number) whose readable endpoints are in the edge field
EdgeArgs ==
    {[shape |-> "object", edge |-> e] : e \in LifeEdges}
    \cup {[shape |-> sh, edge |-> e] :
            sh \in {"null", "fromNotNumber", "toNotNumber"},
            e \in {Edge(0, 0, NoValue), Edge(0, 2, NoValue)}}

InitEdit ==
    /\ has = TRUE
    /\ \E vs \in EditVertexSeqs : \E n \in 0..MaxEdges :
         \E es \in [1..n -> {e \in LifeEdges : e.from \in Range(vs) /\ e.to \in Range(vs)}] :
            /\ ConstructErr(vs, es) = NoError
            /\ g = MakeGraph(vs, es)
    /\ op = "new"
    /\ arg = NoValue
    /\ err = NoError
    /\ out = NoValue

\* const h = g.method(a): r = [err, graph, same] is what the method gave
Returned(name, a, r) ==
    /\ op' = name
    /\ arg' = a
    /\ err' = r.err
    /\ out' = (IF r.err = NoError THEN Some([graph |-> r.graph, same |-> r.same])
               ELSE NoValue)
    /\ UNCHANGED <<has, g>>

EditWithVertex(a) ==
    /\ has /\ op = "new"
    /\ Returned("withVertex", a, WithVertexArg(g, a))

EditWithoutVertex(a) ==
    /\ has /\ op = "new"
    /\ Returned("withoutVertex", a, WithoutVertexArg(g, a))

EditWithEdge(a) ==
    /\ has /\ op = "new"
    /\ Returned("withEdge", a, WithEdgeArg(g, a))

EditWithoutEdge(a) ==
    /\ has /\ op = "new"
    /\ Returned("withoutEdge", a, WithoutEdgeArg(g, a))

NextEdit ==
    \/ \E a \in VertexArgs : EditWithVertex(a)
    \/ \E a \in VertexArgs : EditWithoutVertex(a)
    \/ \E a \in EdgeArgs : EditWithEdge(a)
    \/ \E a \in EdgeArgs : EditWithoutEdge(a)

SpecEdit == InitEdit /\ [][NextEdit]_vars

\* the edge e (endpoints and weight) is an element of the edge sequence
EdgePresent(gr, e) == \E i \in 1..Len(gr.edges) : gr.edges[i] = e

\* C16: on a valid graph (parallel edges and edges that differ only in weight
\* included) withEdge(e) returns the receiver itself exactly when e is
\* already present, and otherwise a graph with e appended (one edge more);
\* withoutEdge(e) returns the receiver itself exactly when e is not present,
\* and otherwise a graph with exactly one edge fewer.
C16_EdgeMutations ==
    /\ (op = "withEdge" /\ err = NoError) =>
          IF EdgePresent(g, arg.edge)
          THEN out[1].same /\ out[1].graph = g
          ELSE /\ ~out[1].same
               /\ out[1].graph.vertices = g.vertices
               /\ out[1].graph.edges = Append(g.edges, arg.edge)
    /\ (op = "withoutEdge" /\ err = NoError) =>
          IF ~EdgePresent(g, arg.edge)
          THEN out[1].same /\ out[1].graph = g
          ELSE /\ ~out[1].same
               /\ out[1].graph.vertices = g.vertices
               /\ Len(out[1].graph.edges) = Len(g.edges) - 1

\* C17: withVertex(v) returns the receiver itself, unchanged, iff v is in
\* the vertex sequence; otherwise a new graph whose vertices are the old ones
\* with v appended (one more) and whose edges are the old edges.
C17_WithVertex ==
    (op = "withVertex" /\ arg.shape = "number") =>
        /\ err = NoError
        /\ out[1].same <=> (\E i \in 1..Len(g.vertices) : g.vertices[i] = arg.value)
        /\ IF out[1].same THEN out[1].graph = g
           ELSE /\ out[1].graph.vertices = g.vertices \o <<arg.value>>
                /\ Len(out[1].graph.vertices) = Len(g.vertices) + 1
                /\ out[1].graph.edges = g.edges

\* withVertex appended a third vertex to a graph with edges
C17_Witness ==
    /\ op = "withVertex" /\ err = NoError
    /\ ~out[1].same
    /\ Len(out[1].graph.vertices) = 3
    /\ Len(g.edges) = 2

\* C18: withoutVertex(v) on a graph that contains v returns a graph without
\* v that keeps the other vertices in order and exactly the edges neither of
\* whose endpoints is v; on a graph that does not contain v it returns the
\* receiver itself.
C18_WithoutVertex ==
    (op = "withoutVertex" /\ arg.shape = "number") =>
        /\ err = NoError
        /\ IF \E i \in 1..Len(g.vertices) : g.vertices[i] = arg.value
           THEN LET NotV(x) == x # arg.value
                    Apart(e) == e.from # arg.value /\ e.to # arg.value
                IN  /\ ~out[1].same
                    /\ arg.value \notin Range(out[1].graph.vertices)
                    /\ out[1].graph.vertices = SelectSeq(g.vertices, NotV)
                    /\ out[1].graph.edges = SelectSeq(g.edges, Apart)
                    /\ Len(out[1].graph.edges) =
                          Cardinality({i \in 1..Len(g.edges) : Apart(g.edges[i])})
           ELSE out[1].same /\ out[1].graph = g

\* withoutVertex removed a vertex with an incoming edge and kept another edge
C18_Witness ==
    /\ op = "withoutVertex" /\ err = NoError
    /\ ~out[1].same
    /\ Len(g.edges) = 2 /\ Len(out[1].graph.edges) = 1
    /\ \E i \in 1..Len(g.edges) : g.edges[i].to = arg.value /\ g.edges[i].from # arg.value

\* C20: withEdge(e) and withoutEdge(e) fail with GraphArgumentError when e is
\* malformed (no object, or from / to no number), also when an endpoint is
\* absent as well, and with GraphValidationError when e is well-formed and an
\* endpoint is absent from the graph; a failing call returns nothing and
\* leaves the receiver as it was.
C20_EdgeArgumentErrors ==
    (op \in {"withEdge", "withoutEdge"}) =>
        /\ (arg.shape # "object") => err = ArgumentError
        /\ (/\ arg.shape = "object"
            /\ \/ arg.edge.from \notin Range(g.vertices)
               \/ arg.edge.to \notin Range(g.vertices)) => err = ValidationError
        /\ (/\ arg.shape = "object"
            /\ arg.edge.from \in Range(g.vertices)
            /\ arg.edge.to \in Range(g.vertices)) => err = NoError
        /\ (err # NoError) => out = NoValue

\* a malformed edge whose readable endpoint is absent from the graph as well
C20_Witness ==
    /\ op = "withEdge" /\ err = ArgumentError
    /\ arg.shape = "toNotNumber"
    /\ arg.edge.to \notin Range(g.vertices)
    /\ Len(g.edges) >= 1

(***************************************************************************)
(* The frame specification: a Graph g is constructed and the caller calls  *)
(* its methods in any order, any number of times, keeping g all along.     *)
(* g is what the fields _vertices and _edges of the receiver hold.         *)
(***************************************************************************)
FrameVertexSeqs == {<<>>, <<0>>, <<1, 0>>, <<0, 1, 2>>}
FrameEdges == {Edge(f, t, w) : f \in VertexIds, t \in VertexIds, w \in {NoValue, Some(-1)}}
FrameEdgeArgs ==
    {[shape |-> "object", edge |-> e] :
        e \in {Edge(0, 1, NoValue), Edge(1, 0, Some(-1)), Edge(0, 2, NoValue)}}
    \cup {[shape |-> "null", edge |-> Edge(0, 0, NoValue)]}

InitFrame ==
    /\ has = TRUE
    /\ \E vs \in FrameVertexSeqs : \E n \in 0..2 :
         \E es \in [1..n -> {e \in FrameEdges : e.from \in Range(vs) /\ e.to \in Range(vs)}] :
            /\ ConstructErr(vs, es) = NoError
            /\ g = MakeGraph(vs, es)
    /\ op = "new"
    /\ arg = NoValue
    /\ err = NoError
    /\ out = NoValue

\* asObject: two new arrays with the receiver's elements
AsObject(gr) == MakeGraph(gr.vertices, gr.edges)

\* the receiver's fields after a method that stored the Graph it made in them
ReceiverAfterTakesResult(gr, made) == IF made = NoValue THEN gr ELSE made[1]

\* the receiver's fields after a method ran; made is the Graph the method
\* constructed, if any.  No method assigns _vertices or _edges, the arrays
\* they hold are frozen copies (lines 76-77), and the only arrays a method
\* pushes onto are its own or the copies asObject hands out (johnson).
ReceiverAfter(gr, made) == gr

\* the call `name(a)` threw e or returned value; made as above
Answer(name, a, e, value, made) ==
    /\ op' = name
    /\ arg' = a
    /\ err' = e
    /\ out' = (IF e = NoError THEN value ELSE NoValue)
    /\ g' = ReceiverAfter(g, made)
    /\ UNCHANGED has

\* a mutation method gave r = [err, graph, same]
AnswerGraph(name, a, r) ==
    Answer(name, a, r.err, Some(r.graph),
           IF r.err = NoError /\ ~r.same THEN Some(r.graph) ELSE NoValue)

FrameWithVertex(a) == has /\ AnswerGraph("withVertex", a, WithVertexArg(g, a))

FrameWithoutVertex(a) == has /\ AnswerGraph("withoutVertex", a, WithoutVertexArg(g, a))

FrameWithEdge(a) == has /\ AnswerGraph("withEdge", a, WithEdgeArg(g, a))

FrameWithoutEdge(a) == has /\ AnswerGraph("withoutEdge", a, WithoutEdgeArg(g, a))

FrameClone == has /\ AnswerGraph("clone", NoValue, Fresh(Clone(g)))

FrameAsObject ==
    has /\ Answer("asObject", NoValue, NoError, Some(AsObject(g)), NoValue)

FrameAsIncList ==
    has /\ Answer("asIncList", NoValue, NoError,
                  Some([leftInc |-> AsLeftIncList(g), rightInc |-> AsRightIncList(g)]),
                  NoValue)

FrameHL == has /\ Answer("HL", NoValue, HL(g).err, Some(HL(g).levels), NoValue)

FrameDFS(from, to) ==
    has /\ Answer("DFS", <<from, to>>, NoError, Some(DFS(g, from, to).result), NoValue)

FrameBFS(from, to) ==
    has /\ Answer("BFS", <<from, to>>, NoError, Some(BFS(g, from, to)), NoValue)

FrameDecompose ==
    has /\ Answer("decompose", NoValue, NoError, Some(Decompose(g)), NoValue)

FrameBellmanFord(start) ==
    has /\ Answer("bellmanFord", start, BellmanFord(g, start).err,
                  Some(BellmanFord(g, start).dist), NoValue)

FrameDijkstra(start) ==
    /\ has
    /\ \E r \in Dijkstra(g, start) :
          Answer("dijkstra", start, IF r.done THEN NoError ELSE Diverged,
                 Some(r.dist), NoValue)

\* johnson pushes q and the edges q -> v onto the arrays of asObject
FrameJohnson ==
    /\ has
    /\ \E r \in Johnson(AsObject(g)) :
          Answer("johnson", NoValue, r.err, Some(r.result), NoValue)

NextFrame ==
    \/ \E a \in VertexArgs : FrameWithVertex(a)
    \/ \E a \in VertexArgs : FrameWithoutVertex(a)
    \/ \E a \in FrameEdgeArgs : FrameWithEdge(a)
    \/ \E a \in FrameEdgeArgs : FrameWithoutEdge(a)
    \/ FrameClone
    \/ FrameAsObject
    \/ FrameAsIncList
    \/ FrameHL
    \/ \E from \in VertexIds : \E to \in VertexIds : FrameDFS(from, to)
    \/ \E from \in VertexIds : \E to \in VertexIds : FrameBFS(from, to)
    \/ FrameDecompose
    \/ \E start \in Range(g.vertices) : FrameBellmanFord(start)
    \/ \E start \in Range(g.vertices) : FrameDijkstra(start)
    \/ FrameJohnson

SpecFrame == InitFrame /\ [][NextFrame]_vars

AsAdjMatrix(gr) ==
    IF Len(gr.vertices) = 0 THEN [err |-> ValidationError, matrix |-> <<>>]
    ELSE [err |-> NoError,
          matrix |-> [i \in 1..Len(gr.vertices) |-> [j \in 1..Len(gr.vertices) |->
              IF \E k \in 1..Len(gr.edges) :
                    /\ IndexOf(gr.vertices, gr.edges[k].from) = i
                    /\ IndexOf(gr.vertices, gr.edges[k].to) = j
              THEN 1 ELSE 0]]]

\* get asIncMatrix(): [err, matrix]; in column k the cell of sourceIndex is
\* set to -1 and then the cell of targetIndex to 1
AsIncMatrix(gr) ==
    IF Len(gr.vertices) = 0 THEN [err |-> ValidationError, matrix |-> <<>>]
    ELSE IF Len(gr.edges) = 0
         THEN [err |-> NoError, matrix |-> [i \in 1..Len(gr.vertices) |-> <<>>]]
    ELSE [err |-> NoError,
          matrix |-> [i \in 1..Len(gr.vertices) |-> [k \in 1..Len(gr.edges) |->
              IF IndexOf(gr.vertices, gr.edges[k].from) = 0
                 \/ IndexOf(gr.vertices, gr.edges[k].to) = 0 THEN 0
              ELSE IF IndexOf(gr.vertices, gr.edges[k].to) = i THEN 1
              ELSE IF IndexOf(gr.vertices, gr.edges[k].from) = i THEN -1
              ELSE 0]]]

\* JSON.stringify of an edge that writes the endpoints only
StringifyEdgeEndpointsOnly(e) ==
    <<[key |-> "from", value |-> e.from], [key |-> "to", value |-> e.to]>>

\* JSON.stringify of an edge: its members in insertion order, a member whose
\* value is undefined left out
StringifyEdge(e) ==
    <<[key |-> "from", value |-> e.from], [key |-> "to", value |-> e.to]>>
    \o (IF e.weight = NoValue THEN <<>> ELSE <<[key |-> "weight", value |-> e.weight[1]]>>)
    \o (IF e.distance = NoValue THEN <<>> ELSE <<[key |-> "distance", value |-> e.distance[1]]>>)

\* get asJSON(): the text, as the members it spells out
AsJSON(gr) ==
    [vertices |-> AsObject(gr).vertices,
     edges |-> [i \in 1..Len(gr.edges) |-> StringifyEdge(AsObject(gr).edges[i])]]

\* the value of the member `key` of a parsed object, NoValue when it has none
Member(ms, key) ==
    IF \E i \in 1..Len(ms) : ms[i].key = key
    THEN Some(ms[CHOOSE i \in 1..Len(ms) :
                    ms[i].key = key /\ \A j \in (i + 1)..Len(ms) : ms[j].key # key].value)
    ELSE NoValue

\* JSON.parse of a text that asJSON wrote
JSONParse(text) ==
    [parses |-> TRUE,
     data |-> Some([vertices |-> Some(text.vertices),
                    edges |-> Some([i \in 1..Len(text.edges) |->
                        [from |-> Member(text.edges[i], "from")[1],
                         to |-> Member(text.edges[i], "to")[1],
                         weight |-> Member(text.edges[i], "weight"),
                         distance |-> Member(text.edges[i], "distance")]])])]

(***************************************************************************)
(* The conversion specification: a Graph g is constructed, then a getter   *)
(* is read, or its JSON text is handed back to fromJSON, or fromJSON is    *)
(* called on a text that is no graph.                                      *)
(***************************************************************************)
AsAdjMatrixCall ==
    /\ has /\ op = "new"
    /\ op' = "asAdjMatrix"
    /\ err' = AsAdjMatrix(g).err
    /\ out' = AsAdjMatrix(g).matrix
    /\ UNCHANGED <<has, g, arg>>

AsIncMatrixCall ==
    /\ has /\ op = "new"
    /\ op' = "asIncMatrix"
    /\ err' = AsIncMatrix(g).err
    /\ out' = AsIncMatrix(g).matrix
    /\ UNCHANGED <<has, g, arg>>

\* Graph.fromJSON(g.asJSON)
JSONRoundTripCall ==
    /\ has /\ op = "new"
    /\ op' = "roundTrip"
    /\ err' = FromJSON(JSONParse(AsJSON(g))).err
    /\ out' = FromJSON(JSONParse(AsJSON(g))).graph
    /\ UNCHANGED <<has, g, arg>>

\* Graph.fromJSON(text) on a text that does not parse, or parses to null or
\* to an object without an array of vertices or of edges
FromJSONTextCall(doc) ==
    /\ has /\ op = "new"
    /\ op' = "fromJSON"
    /\ arg' = doc
    /\ err' = FromJSON(doc).err
    /\ out' = FromJSON(doc).graph
    /\ UNCHANGED <<has, g>>

NextConvert ==
    \/ AsAdjMatrixCall
    \/ AsIncMatrixCall
    \/ JSONRoundTripCall
    \/ \E doc \in {d \in JsonTexts : d.data = NoValue} : FromJSONTextCall(doc)
    \/ \E v, e \in {NoValue, Some(<<>>)} :
         /\ v = NoValue \/ e = NoValue
         /\ FromJSONTextCall([parses |-> TRUE, data |-> Some([vertices |-> v, edges |-> e])])

SpecConvert == InitEdit /\ [][NextConvert]_vars

\* C22: asIncMatrix on n >= 1 vertices and m >= 1 edges returns an n x m
\* matrix whose column k holds -1 in the row of the source of edge k, +1 in
\* the row of its target (also when the two coincide) and 0 in every other
\* row; with no edge it returns n empty rows, with no vertex it fails with
\* GraphValidationError.
C22_IncMatrix ==
    op = "asIncMatrix" =>
        IF Len(g.vertices) = 0 THEN err = ValidationError
        ELSE /\ err = NoError
             /\ Len(out) = Len(g.vertices)
             /\ \A i \in 1..Len(out) :
                  /\ Len(out[i]) = Len(g.edges)
                  /\ \A k \in 1..Len(g.edges) :
                       /\ g.vertices[i] = g.edges[k].from => out[i][k] = -1
                       /\ g.vertices[i] = g.edges[k].to => out[i][k] = 1
                       /\ (g.vertices[i] # g.edges[k].from /\ g.vertices[i] # g.edges[k].to)
                            => out[i][k] = 0

\* C23: asAdjMatrix on n >= 1 vertices returns an n x n matrix of 0 and 1
\* whose cell [i][j] is 1 exactly when the graph has an edge from the i-th
\* to the j-th vertex of the vertex sequence; with no vertex it fails with
\* GraphValidationError.
C23_AdjMatrix ==
    op = "asAdjMatrix" =>
        IF Len(g.vertices) = 0 THEN err = ValidationError
        ELSE /\ err = NoError
             /\ Len(out) = Len(g.vertices)
             /\ \A i \in 1..Len(out) :
                  /\ Len(out[i]) = Len(g.vertices)
                  /\ \A j \in 1..Len(g.vertices) :
                       /\ out[i][j] \in {0, 1}
                       /\ out[i][j] = 1 <=>
                            \E k \in 1..Len(g.edges) :
                                /\ g.edges[k].from = g.vertices[i]
                                /\ g.edges[k].to = g.vertices[j]

(***************************************************************************)
(* The constructor on raw arguments.  A raw value is a record [shape, n]:  *)
(* shape is "integer" for the integer n, otherwise what stands in its      *)
(* place (a string, a fraction); Set.has tells values of different shapes  *)
(* apart.  A raw edge is [shape, from, to] with shape "object" or "null".  *)
(* A raw array argument is [isArray, elems].                               *)
(***************************************************************************)
TypeError == "TypeError"

RawValues == {[shape |-> sh, n |-> n] : sh \in {"integer"}, n \in 0..1}
             \cup {[shape |-> "string", n |-> 0], [shape |-> "fraction", n |-> 0]}

RawEdges == {[shape |-> "object", from |-> f, to |-> t] : f \in RawValues, t \in RawValues}
            \cup {[shape |-> "null", from |-> f, to |-> f] : f \in {[shape |-> "integer", n |-> 0]}}

\* validateGraph, from edge k on: destructuring null throws a TypeError, an
\* endpoint that vertexSet does not have throws GraphValidationError
RECURSIVE ValidateGraphRaw(_, _, _)
ValidateGraphRaw(vs, es, k) ==
    IF k > Len(es) THEN NoError
    ELSE IF es[k].shape = "null" THEN TypeError
    ELSE IF es[k].from \notin Range(vs) \/ es[k].to \notin Range(vs) THEN ValidationError
    ELSE ValidateGraphRaw(vs, es, k + 1)

\* new Graph({vertices, edges}) on raw arguments: [err, graph]
ConstructRaw(v, e) ==
    IF ~v.isArray THEN Failure(ArgumentError)
    ELSE IF ~e.isArray THEN Failure(ArgumentError)
    ELSE IF ValidateGraphRaw(v.elems, e.elems, 1) # NoError
         THEN Failure(ValidateGraphRaw(v.elems, e.elems, 1))
    ELSE [err |-> NoError, graph |-> MakeGraph(v.elems, e.elems)]

NewRaw(v, e) ==
    /\ op = "none"
    /\ op' = "new"
    /\ arg' = [vertices |-> v, edges |-> e]
    /\ Receive(ConstructRaw(v, e))

RawArrays(S, counts) ==
    {[isArray |-> FALSE, elems |-> <<>>]}
    \cup {[isArray |-> TRUE, elems |-> el] : el \in UNION {[1..k -> S] : k \in counts}}

NextRaw ==
    /\ op = "none"
    /\ \E v \in RawArrays(RawValues, 0..2) :
         \E e \in RawArrays(RawEdges, 0..2) : NewRaw(v, e)

SpecRaw == Init /\ [][NextRaw]_vars

\* the raw edge is a {from, to} pair of integers
IntegerPair(e) ==
    e.shape = "object" /\ e.from.shape = "integer" /\ e.to.shape = "integer"

\* C21: the constructor fails with GraphArgumentError when vertices or edges
\* is not an array, when an element of vertices is not an integer, and when
\* an element of edges is not a {from, to} pair of integers.
C21_ConstructorArgumentErrors ==
    (/\ op = "new"
     /\ \/ ~arg.vertices.isArray
        \/ ~arg.edges.isArray
        \/ \E i \in 1..Len(arg.vertices.elems) : arg.vertices.elems[i].shape # "integer"
        \/ \E i \in 1..Len(arg.edges.elems) : ~IntegerPair(arg.edges.elems[i]))
    => (err = ArgumentError /\ ~has)

(***************************************************************************)
(* IncListInput: the component holds incList (useState) and the Graph that *)
(* fromIncList makes of it (useMemo).  arg is [incList, side], g and err   *)
(* are what Graph.fromIncList(incList, side) gave, op is the handler that  *)
(* ran last and out its [incList, vertex] before handleRemoveVertex.       *)
(***************************************************************************)
\* the editing is followed up to MaxKeys vertices and MaxNeighbors neighbours
\* in all
MaxKeys == 3
MaxNeighbors == 3

\* setIncList(list) by the handler `name`, and the render that follows
SetIncList(name, list, before) ==
    /\ op' = name
    /\ arg' = [arg EXCEPT !.incList = list]
    /\ g' = FromIncList(list, arg.side).graph
    /\ err' = FromIncList(list, arg.side).err
    /\ out' = before
    /\ UNCHANGED has

\* useState({0: [1, 2], 1: [2], 2: []}), side one of the two the prop admits
InitInput ==
    /\ has = TRUE
    /\ op = "mount"
    /\ \E side \in {"left", "right"} :
         /\ arg = [incList |-> (0 :> <<1, 2>> @@ 1 :> <<2>> @@ 2 :> <<>>), side |-> side]
         /\ g = FromIncList(arg.incList, side).graph
         /\ err = FromIncList(arg.incList, side).err
    /\ out = NoValue

\* the number of neighbours the list holds
RECURSIVE NeighborCount(_, _)
NeighborCount(list, keys) ==
    IF keys = <<>> THEN 0 ELSE Len(list[Head(keys)]) + NeighborCount(list, Tail(keys))

\* {...prev, [Object.keys(prev).length]: []}
handleAddVertex ==
    /\ has /\ Cardinality(DOMAIN arg.incList) < MaxKeys
    /\ SetIncList("addVertex",
                  [k \in DOMAIN arg.incList \cup {Cardinality(DOMAIN arg.incList)} |->
                      IF k \in DOMAIN arg.incList THEN arg.incList[k] ELSE <<>>],
                  NoValue)

\* the entries whose key is not vertex, rekeyed by their index, their values
\* without vertex but not lowered
RemoveVertexFromListNotLowered(prev, vertex) ==
    LET kept == SortedKeys({k \in DOMAIN prev : k # vertex})
        NotIt(v) == v # vertex
    IN  [index \in 0..(Len(kept) - 1) |-> SelectSeq(prev[kept[index + 1]], NotIt)]

\* the entries whose key is not vertex, rekeyed by their index, their values
\* without vertex and lowered by one above it
RemoveVertexFromList(prev, vertex) ==
    LET kept == SortedKeys({k \in DOMAIN prev : k # vertex})
        NotIt(v) == v # vertex
        Lowered(vs) == [i \in 1..Len(vs) |-> IF vs[i] > vertex THEN vs[i] - 1 ELSE vs[i]]
    IN  [index \in 0..(Len(kept) - 1) |-> Lowered(SelectSeq(prev[kept[index + 1]], NotIt))]

\* the Popconfirm of a row is disabled when allVertices.length <= 1
handleRemoveVertex(vertex) ==
    /\ has /\ Cardinality(DOMAIN arg.incList) > 1
    /\ SetIncList("removeVertex", RemoveVertexFromList(arg.incList, vertex),
                  Some([incList |-> arg.incList, vertex |-> vertex]))

\* {...prev, [vertex]: [...prev[vertex], Number(Object.keys(prev)[0])]}
handleAddNeighbor(vertex) ==
    /\ has
    /\ NeighborCount(arg.incList, SortedKeys(DOMAIN arg.incList)) < MaxNeighbors
    /\ SetIncList("addNeighbor",
                  [arg.incList EXCEPT ![vertex] =
                      Append(@, SortedKeys(DOMAIN arg.incList)[1])],
                  NoValue)

\* {...prev, [vertex]: prev[vertex].filter(v => v !== neighvor)}
handleRemoveNeighbor(vertex, neighvor) ==
    /\ has
    /\ LET NotIt(v) == v # neighvor
       IN  SetIncList("removeNeighbor",
                      [arg.incList EXCEPT ![vertex] = SelectSeq(@, NotIt)], NoValue)

\* {...prev, [vertex]: prev[vertex].map((v, id) => id === neighvor ? newNeighbor : v)}
handleChangeNeighbor(vertex, neighvor, newNeighbor) ==
    /\ has
    /\ SetIncList("changeNeighbor",
                  [arg.incList EXCEPT ![vertex] =
                      [id \in 1..Len(@) |-> IF id - 1 = neighvor THEN newNeighbor ELSE @[id]]],
                  NoValue)

\* setIncList({0: []})
handleClearIncList ==
    /\ has
    /\ SetIncList("clear", (0 :> <<>>), NoValue)

\* what the rendered rows offer: a row per key with its remove button, an
\* add button, and per neighbour a remove button and a select of the keys
NextInput ==
    \/ handleAddVertex
    \/ \E vertex \in DOMAIN arg.incList : handleRemoveVertex(vertex)
    \/ \E vertex \in DOMAIN arg.incList : handleAddNeighbor(vertex)
    \/ \E vertex \in DOMAIN arg.incList : \E id \in 1..Len(arg.incList[vertex]) :
         handleRemoveNeighbor(vertex, arg.incList[vertex][id])
    \/ \E vertex \in DOMAIN arg.incList : \E id \in 1..Len(arg.incList[vertex]) :
         \E newNeighbor \in DOMAIN arg.incList :
            handleChangeNeighbor(vertex, id - 1, newNeighbor)
    \/ handleClearIncList

SpecInput == InitInput /\ [][NextInput]_vars

\* the id of a vertex after the vertex x has been removed
Renumbered(v, x) == IF v > x THEN v - 1 ELSE v

\* the pairs <<key, position, neighbour>> of a list
Pairs(list) ==
    UNION {{<<k, i, list[k][i]>> : i \in 1..Len(list[k])} : k \in DOMAIN list}

\* C30: after any sequence of the editing actions the keys of the list are
\* 0..n-1 with n >= 1 and every neighbour is a key, so fromIncList does not
\* throw; and removing vertex x keeps, in their order, exactly the
\* neighbours that are not x under the keys that are not x, every id above
\* x lowered by one.
C30_IncListWellFormed ==
    /\ DOMAIN arg.incList = 0..(Cardinality(DOMAIN arg.incList) - 1)
    /\ Cardinality(DOMAIN arg.incList) >= 1
    /\ \A k \in DOMAIN arg.incList : Range(arg.incList[k]) \subseteq DOMAIN arg.incList
    /\ err = NoError
    /\ op = "removeVertex" =>
         LET prev == out[1].incList
             x == out[1].vertex
         IN  /\ Cardinality(DOMAIN arg.incList) = Cardinality(DOMAIN prev) - 1
             /\ \A k \in DOMAIN prev \ {x} :
                  LET NotX(v) == v # x
                      kept == SelectSeq(prev[k], NotX)
                  IN  arg.incList[Renumbered(k, x)] =
                         [i \in 1..Len(kept) |-> Renumbered(kept[i], x)]

\* a middle vertex that was a neighbour and had neighbours was removed
C30_Witness ==
    /\ op = "removeVertex"
    /\ out[1].vertex = 1
    /\ Cardinality(DOMAIN out[1].incList) = 3
    /\ out[1].incList[1] # <<>>
    /\ \E i \in 1..Len(out[1].incList[0]) : out[1].incList[0][i] = 1
    /\ \E i \in 1..Len(out[1].incList[0]) : out[1].incList[0][i] = 2
    /\ arg.incList[0] # <<>>

(***************************************************************************)
(* Properties of construction, the factories and the incidence lists.      *)
(***************************************************************************)
\* some edge of es has an endpoint that is not an element of vs
Dangling(vs, es) ==
    \E i \in 1..Len(es) : es[i].from \notin Range(vs) \/ es[i].to \notin Range(vs)

\* the set of directed edges of a graph
EdgeSet(gr) == {<<gr.edges[i].from, gr.edges[i].to>> : i \in 1..Len(gr.edges)}

\* C1: in every Graph the caller obtains from the constructor, from a factory
\* or from any sequence of withVertex / withoutVertex / withEdge / withoutEdge
\* / clone calls, both endpoints of every edge are elements of the vertex
\* sequence; and a construction (constructor, fromJSON, fromIncList) whose
\* edges refer to a vertex absent from its vertices fails with
\* GraphValidationError and yields no Graph.
C1_EdgesReferToVertices ==
    /\ has => \A i \in 1..Len(g.edges) :
                 /\ \E k \in 1..Len(g.vertices) : g.vertices[k] = g.edges[i].from
                 /\ \E k \in 1..Len(g.vertices) : g.vertices[k] = g.edges[i].to
    /\ (op = "new" /\ Dangling(arg.vertices, arg.edges))
         => (err = ValidationError /\ ~has)
    /\ (/\ op = "fromJSON" /\ arg.parses /\ arg.data # NoValue
        /\ arg.data[1].vertices # NoValue /\ arg.data[1].edges # NoValue
        /\ Dangling(arg.data[1].vertices[1], arg.data[1].edges[1]))
         => (err = ValidationError /\ ~has)
    /\ (/\ op = "fromIncList" /\ arg.side \in {"left", "right"}
        /\ \E k \in DOMAIN arg.list : \E j \in 1..Len(arg.list[k]) :
              arg.list[k][j] \notin DOMAIN arg.list)
         => (err = ValidationError /\ ~has)

\* a Graph that withoutVertex returned, with two vertices and an edge left
C1_Witness ==
    /\ has
    /\ op = "withoutVertex"
    /\ err = NoError
    /\ Len(g.vertices) = 2
    /\ Len(g.edges) >= 1

\* C4: fromDisMatrix(matrix) makes vertex i for every row index, an edge
\* i -> j whose weight is the cell value for every non-diagonal cell (i, j)
\* that is not null, and no other edge.
C4_DisMatrixWeights ==
    (op = "fromDisMatrix" /\ err = NoError) =>
        /\ g.vertices = [i \in 1..Len(arg) |-> i - 1]
        /\ \A i \in 1..Len(arg) : \A j \in 1..Len(arg) :
              (i # j /\ arg[i][j] # NoValue) =>
                  \E k \in 1..Len(g.edges) :
                      /\ g.edges[k].from = i - 1
                      /\ g.edges[k].to = j - 1
                      /\ g.edges[k].weight = arg[i][j]
        /\ \A k \in 1..Len(g.edges) :
              /\ g.edges[k].from # g.edges[k].to
              /\ arg[g.edges[k].from + 1][g.edges[k].to + 1] # NoValue

\* C8: fromIncList(map, 'left') makes the edge k -> w for every entry w of
\* map[k], fromIncList(map, 'right') makes the edge w -> k, and no other edge.
C8_IncListOrientation ==
    (op = "fromIncList" /\ err = NoError) =>
        EdgeSet(g) = UNION {{IF arg.side = "left" THEN <<k, arg.list[k][j]>>
                                                   ELSE <<arg.list[k][j], k>> :
                                j \in 1..Len(arg.list[k])} : k \in DOMAIN arg.list}

\* C9: for a graph g whose vertices are 0..n-1 in ascending order,
\* fromIncList(g.asLeftIncList, 'left') and fromIncList(g.asRightIncList,
\* 'right') both succeed with the vertex sequence and the set of directed
\* edges of g.
C9_IncListRoundTrip ==
    (op = "asIncList" /\ g.vertices = [i \in 1..Len(g.vertices) |-> i - 1]) =>
        LET l == FromIncList(out[1].leftInc, "left")
            r == FromIncList(out[1].rightInc, "right")
        IN  /\ l.err = NoError /\ r.err = NoError
            /\ l.graph.vertices = g.vertices /\ r.graph.vertices = g.vertices
            /\ EdgeSet(l.graph) = EdgeSet(g) /\ EdgeSet(r.graph) = EdgeSet(g)

\* C24: fromAdjMatrix fails with GraphArgumentError on every matrix that is
\* not square; on a square n x n matrix it yields the vertices 0..n-1 and one
\* unweighted edge i -> j for every nonzero cell (i, j), in row-major order,
\* and for n >= 1 the asAdjMatrix of the graph it yields is the matrix.
C24_AdjMatrixRoundTrip ==
    op = "fromAdjMatrix" =>
        IF \E i \in 1..Len(arg) : Len(arg[i]) # Len(arg)
        THEN err = ArgumentError
        ELSE /\ err = NoError
             /\ g.vertices = [i \in 1..Len(arg) |-> i - 1]
             /\ Len(g.edges) = Cardinality({c \in (1..Len(arg)) \X (1..Len(arg)) :
                                                arg[c[1]][c[2]] # 0})
             /\ \A k \in 1..Len(g.edges) :
                  /\ g.edges[k].weight = NoValue
                  /\ g.edges[k].from \in 0..(Len(arg) - 1)
                  /\ g.edges[k].to \in 0..(Len(arg) - 1)
                  /\ arg[g.edges[k].from + 1][g.edges[k].to + 1] # 0
                  /\ \A l \in 1..(k - 1) :
                       \/ g.edges[l].from < g.edges[k].from
                       \/ /\ g.edges[l].from = g.edges[k].from
                          /\ g.edges[l].to < g.edges[k].to
             /\ Len(arg) >= 1 =>
                  (AsAdjMatrix(g).err = NoError /\ AsAdjMatrix(g).matrix = arg)

\* a 2 x 2 matrix that is not symmetric, with a nonzero diagonal cell, was
\* turned into a graph
C24_Witness ==
    /\ op = "fromAdjMatrix" /\ err = NoError
    /\ Len(arg) = 2
    /\ arg[1][2] = 1 /\ arg[2][1] = 0 /\ arg[2][2] = 1
    /\ Len(g.edges) >= 2

\* C25: for every graph g, Graph.fromJSON(g.asJSON) succeeds and yields the
\* vertices and the edges of g in the same order, weights included; fromJSON
\* fails with GraphArgumentError on a text that does not parse and on one
\* whose vertices or edges is missing or no array.
C25_JSONRoundTrip ==
    /\ op = "roundTrip" =>
         /\ err = NoError
         /\ out.vertices = g.vertices
         /\ out.edges = g.edges
    /\ op = "fromJSON" => err = ArgumentError

\* a graph with a weighted and an unweighted edge went through its JSON text
C25_Witness ==
    /\ op = "roundTrip" /\ err = NoError
    /\ \E i, j \in 1..Len(g.edges) :
         g.edges[i].weight # NoValue /\ g.edges[j].weight = NoValue
    /\ Len(out.edges) = 2

\* C27: when the graph has no negative-weight cycle, every edge u -> v of
\* the graph johnson() hands to dijkstra has the weight w(u,v) + h(u) - h(v),
\* which is >= 0, h being the map bellmanFord gave from the added vertex q,
\* and q is none of the graph's vertices.
C27_JohnsonReweighting ==
    (op = "johnson" /\ ~HasNegativeCycle(g, StatedWeight)) =>
        LET h == BellmanFord(Augmented(g), JohnsonQ(g))
        IN  /\ JohnsonQ(g) \notin Range(g.vertices)
            /\ h.err = NoError
            /\ \A i \in 1..Len(g.edges) :
                 /\ Reweighted(g, h.dist).edges[i].weight =
                        Some(StatedWeight(g.edges[i]) + h.dist[g.edges[i].from]
                                                      - h.dist[g.edges[i].to])
                 /\ Reweighted(g, h.dist).edges[i].weight[1] >= 0

\* C28: in every Graph obtained by the constructor, a factory or any
\* sequence of withVertex, withoutVertex, withEdge and withoutEdge calls, no
\* vertex occurs twice in the vertex sequence.
C28_VerticesUnique ==
    has => \A i, j \in 1..Len(g.vertices) : g.vertices[i] = g.vertices[j] => i = j

\* C29: the links decompose() returns form no directed cycle among the
\* indices of the sub-graphs, and no link has from = to.
C29_CondensationAcyclic ==
    op = "decompose" =>
        /\ \A i \in 1..Len(out.links) : out.links[i].from # out.links[i].to
        /\ ~HasCycle(MakeGraph([i \in 1..Len(out.subGraphs) |-> i - 1], out.links))

\* a graph with a cycle of two vertices and a third vertex behind it was
\* decomposed into two sub-graphs with a link between them
C29_Witness ==
    /\ op = "decompose"
    /\ Len(out.subGraphs) = 2
    /\ Len(out.links) = 1
    /\ \E i, j \in 1..Len(g.edges) :
         /\ g.edges[i].from # g.edges[i].to
         /\ g.edges[j].from = g.edges[i].to /\ g.edges[j].to = g.edges[i].from

====
